---- MODULE Spec2Model ----
(***************************************************************************)
(* A model of guessit's match tree, its positional resolver                *)
(* (match_from_epnum_position), the diagnostic rendering (tree_to_string), *)
(* the weak episode-number pass and the language entity / matcher.         *)
(*                                                                         *)
(* Conventions.  A Python string is a sequence of one-character strings.  *)
(* A confidence c is kept as the integer 100*c (0.7 is 70).  Positions    *)
(* (pidx, eidx, gidx) are 0-based as in the code; the sequences that hold  *)
(* the tree are 1-based, so leaf (p, e, g) is tree[p+1][e+1][g+1].         *)
(***************************************************************************)
EXTENDS Integers, Sequences, FiniteSets, TLC

VARIABLES
    match_tree,          \* the tree match_from_epnum_position works on
    last,                \* its last call: anchor and running state after each rule
    weak_episode_rexps,  \* the pattern list of the weak episode pass
    wtree,               \* the leaves the weak episode pass runs over
    info,                \* the aggregate result of that tree (node.root.info)
    wlast,               \* the invocations of the pass in its last run
    rtree,               \* the tree given to tree_to_string
    rendered,            \* what tree_to_string returned for it
    language_matrix,     \* the rows of the ISO 639-2 table
    built,               \* the Language objects last constructed from a row
    searched             \* the last call of search_language and its result

resolverVars == <<match_tree, last>>
weakVars     == <<weak_episode_rexps, wtree, info, wlast>>
renderVars   == <<rtree, rendered>>
languageVars == <<language_matrix, built, searched>>
vars == <<match_tree, last, weak_episode_rexps, wtree, info, wlast, rtree, rendered,
          language_matrix, built, searched>>

-----------------------------------------------------------------------------
(* Values, guesses, strings                                                *)

\* A property value: a Python str or a Python int.
StrV(s) == [t |-> "str", s |-> s, n |-> 0]
IntV(n) == [t |-> "int", s |-> <<>>, n |-> n]

\* Python None in a guess slot.
None == [none |-> TRUE, props |-> {}, confidence |-> 0]

\* Guess(props, confidence=c): a dict of properties with a confidence.
Guess(props, c) == [none |-> FALSE, props |-> props, confidence |-> c]

\* Python truthiness of a guess slot: None and the empty dict are falsy.
Truthy(g) == ~g.none /\ g.props # {}

\* `prop in guess`
HasProp(g, prop) == \E kv \in g.props : kv[1] = prop

\* guess[prop]
PropValue(g, prop) == (CHOOSE kv \in g.props : kv[1] = prop)[2]

RECURSIVE Concat(_)
Concat(ss) ==
    IF Len(ss) = 0 THEN <<>>
    ELSE IF Len(ss) = 1 THEN ss[1]
    ELSE LET mid == Len(ss) \div 2
         IN  Concat(SubSeq(ss, 1, mid)) \o Concat(SubSeq(ss, mid + 1, Len(ss)))

\* s * n for a string s
RECURSIVE Repeat(_, _)
Repeat(s, n) == IF n <= 0 THEN <<>> ELSE s \o Repeat(s, n - 1)

\* the filler character of guessit.patterns
deleted == <<"_">>

\* the separators clean_string turns into spaces
CleanSeps == {"_", ".", " ", "[", "]", "(", ")", "{", "}", "+", "/"}

\* s.split(): the whitespace-separated words of s
RECURSIVE SplitWords(_, _, _)
SplitWords(s, cur, acc) ==
    IF Len(s) = 0
    THEN IF Len(cur) = 0 THEN acc ELSE Append(acc, cur)
    ELSE IF Head(s) = " "
         THEN SplitWords(Tail(s), <<>>, IF Len(cur) = 0 THEN acc ELSE Append(acc, cur))
         ELSE SplitWords(Tail(s), Append(cur, Head(s)), acc)

\* ' '.join(words)
RECURSIVE JoinWords(_)
JoinWords(ws) ==
    IF Len(ws) = 0 THEN <<>>
    ELSE IF Len(ws) = 1 THEN ws[1]
    ELSE ws[1] \o <<" ">> \o JoinWords(Tail(ws))

\* guessit.textutils.clean_string: separators and filler become blanks, runs
\* of blanks collapse, outer blanks are stripped.
clean_string(s) ==
    JoinWords(SplitWords([i \in 1..Len(s) |-> IF s[i] \in CleanSeps THEN " " ELSE s[i]],
                         <<>>, <<>>))

-----------------------------------------------------------------------------
(* The match tree                                                          *)

\* leaf = (string, remaining, guess)
LeafString(leaf)    == leaf[1]
LeafRemaining(leaf) == leaf[2]
LeafGuess(leaf)     == leaf[3]

\* an untouched leaf: nothing consumed, no guess
Fresh(s) == <<s, s, None>>

iterate_groups(tree) ==
    Concat([p \in 1..Len(tree) |->
        Concat([e \in 1..Len(tree[p]) |->
            [g \in 1..Len(tree[p][e]) |-> << <<p - 1, e - 1, g - 1>>, tree[p][e][g] >>]])])

find_group(tree, prop) ==
    LET hits == SelectSeq(iterate_groups(tree),
                          LAMBDA it : Truthy(LeafGuess(it[2])) /\ HasProp(LeafGuess(it[2]), prop))
    IN  [i \in 1..Len(hits) |-> hits[i][1]]

get_group(tree, gpos) == tree[gpos[1] + 1][gpos[2] + 1][gpos[3] + 1]

\* the default validity predicate: len(s) > 3
MinValidLen == 3
valid(s) == Len(s) > MinValidLen

leftover_valid_groups(tree) ==
    LET open == SelectSeq(iterate_groups(tree),
                          LAMBDA it : ~Truthy(LeafGuess(it[2]))
                                      /\ valid(clean_string(LeafRemaining(it[2]))))
    IN  [i \in 1..Len(open) |-> << clean_string(LeafRemaining(open[i][2])), open[i][1] >>]

-----------------------------------------------------------------------------
(* The positional resolver, match_from_epnum_position                      *)

\* confidences of the four rules, times 100
ConfSeriesBefore == 70
ConfTitleAfter   == 50
ConfSplit        == 40
ConfSeriesPrev   == 70

\* The `guessed` callback: builds the Guess for a property map.
guessed(props, confidence) == Guess(props, confidence)

\* update_found sizing the filler by the cleaned text instead of the original
update_found_CleanedLength(tree, leftover, group_pos, guess) ==
    LET group == get_group(tree, group_pos)
    IN  [tree |-> [tree EXCEPT ![group_pos[1] + 1][group_pos[2] + 1][group_pos[3] + 1] =
                        << group[1], Repeat(deleted, Len(clean_string(group[2]))), guess >>],
         leftover |-> SelectSeq(leftover, LAMBDA g : g[2] # group_pos)]

\* update_found: commits the guess to the leaf, filler replacing its remaining
\* text, and drops the leaf from the leftover list.
update_found(tree, leftover, group_pos, guess) ==
    LET group == get_group(tree, group_pos)
    IN  [tree |-> [tree EXCEPT ![group_pos[1] + 1][group_pos[2] + 1][group_pos[3] + 1] =
                        << group[1], Repeat(deleted, Len(group[1])), guess >>],
         leftover |-> SelectSeq(leftover, LAMBDA g : g[2] # group_pos)]

\* (a, b) < (c, d) on tuples
PairLess(a, b, c, d) == a < c \/ (a = c /\ b < d)

\* same_pgroup_before looking only at the anchor's explicit group
same_pgroup_before_GroupOnly(epnum_pos, group) ==
    group[2][1] = epnum_pos[1] /\ group[2][2] = epnum_pos[2] /\ group[2][3] < epnum_pos[3]

same_pgroup_before(epnum_pos, group) ==
    group[2][1] = epnum_pos[1]
    /\ PairLess(group[2][2], group[2][3], epnum_pos[2], epnum_pos[3])

\* same_pgroup_after looking only at the anchor's explicit group
same_pgroup_after_GroupOnly(epnum_pos, group) ==
    group[2][1] = epnum_pos[1] /\ group[2][2] = epnum_pos[2] /\ group[2][3] > epnum_pos[3]

same_pgroup_after(epnum_pos, group) ==
    group[2][1] = epnum_pos[1]
    /\ PairLess(epnum_pos[2], epnum_pos[3], group[2][2], group[2][3])

same_egroup_before(epnum_pos, group) ==
    group[2][1] = epnum_pos[1] /\ group[2][2] = epnum_pos[2] /\ group[2][3] < epnum_pos[3]

same_egroup_after(epnum_pos, group) ==
    group[2][1] = epnum_pos[1] /\ group[2][2] = epnum_pos[2] /\ group[2][3] > epnum_pos[3]

\* One guessed-and-committed step of a rule: st is the running
\* (tree, leftover, calls) of the call, calls logging every use of `guessed`.
Commit(st, rule, cand, prop, confidence) ==
    LET guess == guessed({<<prop, StrV(cand[1])>>}, confidence)
        u     == update_found(st.tree, st.leftover, cand[2], guess)
    IN  [tree |-> u.tree, leftover |-> u.leftover,
         calls |-> Append(st.calls, [rule |-> rule, pos |-> cand[2], guess |-> guess])]

\* rule 1: exactly one valid group before the episode number in its path part
SeriesCandidates(st, epnum_pos) ==
    SelectSeq(st.leftover, LAMBDA g : same_pgroup_before(epnum_pos, g))

Rule1(st, epnum_pos) ==
    LET series_candidates == SeriesCandidates(st, epnum_pos)
    IN  IF Len(series_candidates) = 1
        THEN Commit(st, 1, series_candidates[1], "series", ConfSeriesBefore)
        ELSE st

\* rule 2: exactly one group after it in the same explicit group
TitleCandidates(st, epnum_pos) ==
    SelectSeq(st.leftover, LAMBDA g : same_egroup_after(epnum_pos, g))

\* rule 2 firing on one or more candidates
Rule2_AtLeastOne(st, epnum_pos) ==
    LET title_candidates == TitleCandidates(st, epnum_pos)
    IN  IF Len(title_candidates) >= 1
        THEN Commit(st, 2, title_candidates[1], "title", ConfTitleAfter)
        ELSE st

Rule2(st, epnum_pos) ==
    LET title_candidates == TitleCandidates(st, epnum_pos)
    IN  IF Len(title_candidates) = 1
        THEN Commit(st, 2, title_candidates[1], "title", ConfTitleAfter)
        ELSE st

\* rule 3: no title yet, nothing before, exactly two after in the path part
\* the title check looking for the wrong property
already_has_title_WrongProperty(tree) == find_group(tree, "series") # <<>>

already_has_title(tree) == find_group(tree, "title") # <<>>

SplitCandidates(st, epnum_pos) ==
    SelectSeq(st.leftover, LAMBDA g : same_pgroup_after(epnum_pos, g))

Rule3Fires(st, epnum_pos) ==
    /\ ~already_has_title(st.tree)
    /\ SeriesCandidates(st, epnum_pos) = <<>>
    /\ Len(SplitCandidates(st, epnum_pos)) = 2

Rule3(st, epnum_pos) ==
    LET title_candidates == SplitCandidates(st, epnum_pos)
    IN  IF Rule3Fires(st, epnum_pos)
        THEN Commit(Commit(st, 3, title_candidates[1], "series", ConfSplit),
                    3, title_candidates[2], "title", ConfSplit)
        ELSE st

\* rule 4: exactly one valid group in the path part before the anchor's
PrevCandidates(st, epnum_pos) ==
    SelectSeq(st.leftover, LAMBDA g : g[2][1] = epnum_pos[1] - 1)

Rule4(st, epnum_pos) ==
    LET series_candidates == PrevCandidates(st, epnum_pos)
    IN  IF Len(series_candidates) = 1
        THEN Commit(st, 4, series_candidates[1], "series", ConfSeriesPrev)
        ELSE st

\* the state of a call before any rule
Stage0(tree) == [tree |-> tree, leftover |-> leftover_valid_groups(tree), calls |-> <<>>]

\* the states of a call after rules 1, 2, 3, 4 (stages[k + 1] is after rule k)
Stages(tree, epnum_pos) ==
    LET s0 == Stage0(tree)
        s1 == Rule1(s0, epnum_pos)
        s2 == Rule2(s1, epnum_pos)
        s3 == Rule3(s2, epnum_pos)
        s4 == Rule4(s3, epnum_pos)
    IN  <<s0, s1, s2, s3, s4>>

match_from_epnum_position(tree, epnum_pos) == Stages(tree, epnum_pos)[5].tree

-----------------------------------------------------------------------------
(* The weak episode-number pass, guess_weak_episodes_rexps                 *)

Digits == {"0", "1", "2", "3", "4", "5", "6", "7", "8", "9"}

DigitValue(c) ==
    CASE c = "0" -> 0 [] c = "1" -> 1 [] c = "2" -> 2 [] c = "3" -> 3 [] c = "4" -> 4
      [] c = "5" -> 5 [] c = "6" -> 6 [] c = "7" -> 7 [] c = "8" -> 8 [] OTHER -> 9

DigitChar(d) == <<"0", "1", "2", "3", "4", "5", "6", "7", "8", "9">>[d + 1]

\* int(s) for a string of decimal digits
RECURSIVE ParseInt(_)
ParseInt(s) ==
    IF Len(s) = 0 THEN 0
    ELSE 10 * ParseInt(SubSeq(s, 1, Len(s) - 1)) + DigitValue(s[Len(s)])

\* the separator class of guessit.patterns
PatternSeps == {" ", ".", "_", "-", "+", "/", "[", "]", "(", ")", "{", "}"}

\* A pattern of the list: character classes `lead`, then the named group
\* (?P<episodeNumber>[0-9]{lo,hi}), then character classes `trail`; with its
\* span adjustment.  Letters carry both cases (re.IGNORECASE).
NumberRexp == [lead |-> <<PatternSeps>>, lo |-> 1, hi |-> 3,
               trail |-> <<PatternSeps>>, span_adjust |-> <<1, -1>>]
VersionRexp == [lead |-> <<>>, lo |-> 1, hi |-> 3,
                trail |-> <<{"v", "V"}, {"2", "3"}, PatternSeps>>, span_adjust |-> <<0, 0>>]
EpRexp == [lead |-> <<{"e", "E"}, {"p", "P"}, PatternSeps>>, lo |-> 1, hi |-> 2,
           trail |-> <<PatternSeps>>, span_adjust |-> <<0, -1>>]

\* the pattern matches string at 1-based index i with k digits in the group
MatchesAt(rexp, string, i, k) ==
    LET nl == Len(rexp.lead)
        nt == Len(rexp.trail)
    IN  /\ i + nl + k + nt - 1 <= Len(string)
        /\ \A j \in 1..nl : string[i + j - 1] \in rexp.lead[j]
        /\ \A j \in 1..k  : string[i + nl + j - 1] \in Digits
        /\ \A j \in 1..nt : string[i + nl + k + j - 1] \in rexp.trail[j]

NoMatch == [matched |-> FALSE, start |-> 0, end |-> 0, episodeNumber |-> <<>>]

\* re.search(rexp, string, re.IGNORECASE): the leftmost match, the group greedy
re_search(rexp, string) ==
    LET starts == { i \in 1..Len(string) :
                      \E k \in rexp.lo..rexp.hi : MatchesAt(rexp, string, i, k) }
    IN  IF starts = {} THEN NoMatch
        ELSE LET i == CHOOSE x \in starts : \A y \in starts : x <= y
                 k == CHOOSE x \in rexp.lo..rexp.hi :
                        /\ MatchesAt(rexp, string, i, x)
                        /\ \A y \in rexp.lo..rexp.hi : MatchesAt(rexp, string, i, y) => y <= x
             IN  [matched |-> TRUE, start |-> i - 1,
                  end |-> i - 1 + Len(rexp.lead) + k + Len(rexp.trail),
                  episodeNumber |-> SubSeq(string, i + Len(rexp.lead),
                                           i + Len(rexp.lead) + k - 1)]

\* a span (start, end), or None
NoSpan == [none |-> TRUE, start |-> 0, end |-> 0]
Span(a, b) == [none |-> FALSE, start |-> a, end |-> b]

SeasonThreshold == 100
ConfSeasonEpisode == 60
ConfBareEpisode == 30

\* match.groupdict(): the named groups, as the text they matched
groupdict(match) == {<<"episodeNumber", StrV(match.episodeNumber)>>}

\* the loop over the pattern list: the first pattern that matches decides
RECURSIVE FirstMatch(_, _)
FirstMatch(rexps, string) ==
    IF Len(rexps) = 0 THEN [guess |-> None, span |-> NoSpan]
    ELSE LET rexp  == Head(rexps)
             match == re_search(rexp, string)
         IN  IF match.matched
             THEN LET metadata == groupdict(match)
                      span  == Span(match.start + rexp.span_adjust[1],
                                    match.end + rexp.span_adjust[2])
                      epnum == ParseInt(PropValue(Guess(metadata, 0), "episodeNumber").s)
                  IN  IF epnum > SeasonThreshold
                      THEN [guess |-> Guess({<<"season", IntV(epnum \div 100)>>,
                                             <<"episodeNumber", IntV(epnum % 100)>>},
                                            ConfSeasonEpisode),
                            span |-> span]
                      ELSE [guess |-> Guess(metadata, ConfBareEpisode), span |-> span]
             ELSE FirstMatch(Tail(rexps), string)

\* the pass with its guard on another property than the one it produces
guess_weak_episodes_rexps_SeasonGuard(string, root_info, rexps) ==
    IF HasProp(root_info, "season")
    THEN [guess |-> None, span |-> NoSpan]
    ELSE FirstMatch(rexps, string)

\* guess_weak_episodes_rexps(string, node), root_info being node.root.info
guess_weak_episodes_rexps(string, root_info, rexps) ==
    IF HasProp(root_info, "episodeNumber")
    THEN [guess |-> None, span |-> NoSpan]
    ELSE FirstMatch(rexps, string)

\* the pass-level trust weight given to SingleNodeGuesser, times 100
TrustWeight == 60

\* text[start:end] replaced by filler, the length kept
Consume(text, span) ==
    [i \in 1..Len(text) |-> IF span.start < i /\ i <= span.end THEN deleted[1] ELSE text[i]]

\* the aggregate result with the properties of a new guess merged in, an
\* already present property keeping its value
Merge(aggregate, guess) ==
    Guess(aggregate.props \cup { kv \in guess.props : ~HasProp(aggregate, kv[1]) }, 100)

\* SingleNodeGuesser(guess_weak_episodes_rexps, 0.6, log).process(mtree): the
\* pass is run on every leaf that holds no guess, in order; a guess it returns
\* is committed to the leaf with its confidence scaled by the trust weight and
\* merged into the aggregate.  run = (tree, info, log), log recording each
\* invocation.
RECURSIVE ProcessFrom(_, _, _)
ProcessFrom(i, run, rexps) ==
    IF i > Len(run.tree) THEN run
    ELSE IF Truthy(LeafGuess(run.tree[i])) THEN ProcessFrom(i + 1, run, rexps)
    ELSE LET string == LeafRemaining(run.tree[i])
             r      == guess_weak_episodes_rexps(string, run.info, rexps)
             entry  == [string |-> string, info |-> run.info,
                        guess |-> r.guess, span |-> r.span]
         IN  IF Truthy(r.guess)
             THEN LET g == Guess(r.guess.props, (r.guess.confidence * TrustWeight) \div 100)
                  IN  ProcessFrom(i + 1,
                          [tree |-> [run.tree EXCEPT ![i] =
                                        << LeafString(run.tree[i]), Consume(string, r.span), g >>],
                           info |-> Merge(run.info, g),
                           log  |-> Append(run.log, entry)],
                          rexps)
             ELSE ProcessFrom(i + 1, [run EXCEPT !.log = Append(run.log, entry)], rexps)

process(tree, aggregate, rexps) ==
    ProcessFrom(1, [tree |-> tree, info |-> aggregate, log |-> <<>>], rexps)

MaxNumber == 105   \* the numbers written into leaf texts
MaxWidth  == 3     \* zero-padded width of a number

\* the decimal digits of n
RECURSIVE Decimal(_)
Decimal(n) == IF n < 10 THEN <<DigitChar(n)>> ELSE Append(Decimal(n \div 10), DigitChar(n % 10))

\* n in decimal, zero-padded to width w
ZeroPad(n, w) == Repeat(<<"0">>, w - Len(Decimal(n))) \o Decimal(n)

\* what stands before and after the number in a leaf text
Contexts ==
    { << <<" ">>, <<" ">> >>,
      << <<"E", "p", ".">>, <<"-">> >>,
      << <<"_">>, <<"v", "2", " ">> >>,
      << <<"x">>, <<" ">> >> }

\* small numbers, the numbers around the season threshold, and two large ones
Numbers == { n \in 0..MaxNumber : n <= 12 \/ n >= 95 } \cup {205, 999}

LeafTexts ==
    { c[1] \o ZeroPad(n, w) \o c[2] : c \in Contexts, n \in Numbers, w \in 1..MaxWidth }

RexpPool == {NumberRexp, VersionRexp, EpRexp}

\* the pattern lists: one or two distinct patterns, in either order
RexpLists ==
    { <<r>> : r \in RexpPool } \cup { rs \in RexpPool \X RexpPool : rs[1] # rs[2] }

\* a second leaf of the tree
SecondLeaves == { <<>>, << Fresh(<<".", "0", "7", ".">>) >> }

NoRun == [ran |-> FALSE, tree |-> <<>>, info |-> Guess({}, 100), log |-> <<>>]

InitWeak ==
    /\ weak_episode_rexps \in RexpLists
    /\ wtree \in { <<Fresh(t)>> \o more : t \in LeafTexts, more \in SecondLeaves }
    /\ info = Guess({}, 100)
    /\ wlast = NoRun

\* one run of the pass over the tree
Process ==
    LET run == process(wtree, info, weak_episode_rexps)
    IN  /\ wtree' = run.tree
        /\ info' = run.info
        /\ wlast' = [ran |-> TRUE, tree |-> wtree, info |-> info, log |-> run.log]
        /\ UNCHANGED weak_episode_rexps

\* an earlier pass of the pipeline resolves the episode number itself
EarlierPassClaims ==
    /\ ~HasProp(info, "episodeNumber")
    /\ info' = Merge(info, Guess({<<"episodeNumber", IntV(5)>>}, 100))
    /\ UNCHANGED <<weak_episode_rexps, wtree, wlast>>

-----------------------------------------------------------------------------
(* The diagnostic rendering, tree_to_string                                *)

\* the largest code chr takes
MaxChr == 255

\* The characters of codes 0..255, one string for each: a character that is
\* not printable ASCII is written \xNN as Python writes it, and so is the
\* grave accent (code 96, \x60), which a string of this language cannot hold.
Ascii ==
    <<
       "\\x00", "\\x01", "\\x02", "\\x03", "\\x04", "\\x05", "\\x06", "\\x07",
       "\\x08", "\\x09", "\\x0a", "\\x0b", "\\x0c", "\\x0d", "\\x0e", "\\x0f",
       "\\x10", "\\x11", "\\x12", "\\x13", "\\x14", "\\x15", "\\x16", "\\x17",
       "\\x18", "\\x19", "\\x1a", "\\x1b", "\\x1c", "\\x1d", "\\x1e", "\\x1f",
       " ", "!", "\"", "#", "$", "%", "&", "'",
       "(", ")", "*", "+", ",", "-", ".", "/",
       "0", "1", "2", "3", "4", "5", "6", "7",
       "8", "9", ":", ";", "<", "=", ">", "?",
       "@", "A", "B", "C", "D", "E", "F", "G",
       "H", "I", "J", "K", "L", "M", "N", "O",
       "P", "Q", "R", "S", "T", "U", "V", "W",
       "X", "Y", "Z", "[", "\\", "]", "^", "_",
       "\\x60", "a", "b", "c", "d", "e", "f", "g",
       "h", "i", "j", "k", "l", "m", "n", "o",
       "p", "q", "r", "s", "t", "u", "v", "w",
       "x", "y", "z", "{", "|", "}", "~", "\\x7f",
       "\\x80", "\\x81", "\\x82", "\\x83", "\\x84", "\\x85", "\\x86", "\\x87",
       "\\x88", "\\x89", "\\x8a", "\\x8b", "\\x8c", "\\x8d", "\\x8e", "\\x8f",
       "\\x90", "\\x91", "\\x92", "\\x93", "\\x94", "\\x95", "\\x96", "\\x97",
       "\\x98", "\\x99", "\\x9a", "\\x9b", "\\x9c", "\\x9d", "\\x9e", "\\x9f",
       "\\xa0", "\\xa1", "\\xa2", "\\xa3", "\\xa4", "\\xa5", "\\xa6", "\\xa7",
       "\\xa8", "\\xa9", "\\xaa", "\\xab", "\\xac", "\\xad", "\\xae", "\\xaf",
       "\\xb0", "\\xb1", "\\xb2", "\\xb3", "\\xb4", "\\xb5", "\\xb6", "\\xb7",
       "\\xb8", "\\xb9", "\\xba", "\\xbb", "\\xbc", "\\xbd", "\\xbe", "\\xbf",
       "\\xc0", "\\xc1", "\\xc2", "\\xc3", "\\xc4", "\\xc5", "\\xc6", "\\xc7",
       "\\xc8", "\\xc9", "\\xca", "\\xcb", "\\xcc", "\\xcd", "\\xce", "\\xcf",
       "\\xd0", "\\xd1", "\\xd2", "\\xd3", "\\xd4", "\\xd5", "\\xd6", "\\xd7",
       "\\xd8", "\\xd9", "\\xda", "\\xdb", "\\xdc", "\\xdd", "\\xde", "\\xdf",
       "\\xe0", "\\xe1", "\\xe2", "\\xe3", "\\xe4", "\\xe5", "\\xe6", "\\xe7",
       "\\xe8", "\\xe9", "\\xea", "\\xeb", "\\xec", "\\xed", "\\xee", "\\xef",
       "\\xf0", "\\xf1", "\\xf2", "\\xf3", "\\xf4", "\\xf5", "\\xf6", "\\xf7",
       "\\xf8", "\\xf9", "\\xfa", "\\xfb", "\\xfc", "\\xfd", "\\xfe", "\\xff" >>

\* what chr gives in place of a character when it raises ValueError
chr_ValueError == "ValueError"

\* chr(c): the character of code c, ValueError for a code outside 0..255
chr(c) == IF c \in 0..MaxChr THEN Ascii[c + 1] ELSE chr_ValueError

\* str(x) for an int x >= 0
str(x) == Decimal(x)

\* to_hex: one character for an index, anything else as it is; the
\* ValueError of chr goes through
to_hex(x) ==
    IF x.t = "int"
    THEN IF x.n < 10 THEN str(x.n) ELSE <<chr(55 + x.n)>>
    ELSE x.s

\* m_tree when a ValueError has left add_char
to_hex_Raised == << <<chr_ValueError>> >>

\* add_char: m_tree with one leaf (or one separator) added to its five lines;
\* to_hex is called for the three indices whatever the length of remaining
add_char(m_tree, pidx, eidx, gidx, remaining, meaning) ==
    LET nr == Len(remaining)
    IN  IF <<chr_ValueError>> \in {to_hex(pidx), to_hex(eidx), to_hex(gidx)}
        THEN to_hex_Raised
        ELSE << m_tree[1] \o Repeat(to_hex(pidx), nr),
                m_tree[2] \o Repeat(to_hex(eidx), nr),
                m_tree[3] \o Repeat(to_hex(gidx), nr),
                m_tree[4] \o remaining,
                m_tree[5] \o Repeat(IF meaning = <<>> THEN <<" ">> ELSE meaning, nr) >>

\* the property -> letter map, in the order it is written
mmap ==
    << <<"episodeNumber", "E">>, <<"season", "S">>, <<"extension", "e">>,
       <<"format", "f">>, <<"language", "l">>, <<"videoCodec", "v">>,
       <<"website", "w">>, <<"container", "c">>, <<"series", "T">>,
       <<"title", "t">> >>

\* the orderings of a finite set, as sequences
RECURSIVE Orderings(_)
Orderings(S) ==
    IF S = {} THEN { <<>> }
    ELSE UNION { { <<x>> \o rest : rest \in Orderings(S \ {x}) } : x \in S }

\* The orders mmap.items() can come in: a dict has no defined order, so the
\* entries of the properties props come in every order, ahead of the other
\* entries.  With props all the properties of the map these are all the
\* orders of the dict; the place of a property no guess holds decides no
\* letter.
MmapOrders(props) ==
    LET held == { i \in 1..Len(mmap) : mmap[i][1] \in props }
        rest == SelectSeq(mmap, LAMBDA entry : entry[1] \notin props)
    IN  { [k \in 1..Len(order) |-> mmap[order[k]]] \o rest : order \in Orderings(held) }

\* meaning(result): the letter of the first property of the map, in the
\* order items, that the guess holds
meaning(result, items) ==
    IF result = None THEN <<" ">>
    ELSE IF \E i \in 1..Len(items) : HasProp(result, items[i][1])
         THEN LET i == CHOOSE i \in 1..Len(items) :
                          /\ HasProp(result, items[i][1])
                          /\ \A j \in 1..(i - 1) : ~HasProp(result, items[j][1])
              IN  <<items[i][2]>>
         ELSE <<"x">>

\* The three loops of tree_to_string run over the children in order.  Each is
\* written here over a range lo..hi-1 of 0-based indices, the range run as
\* its first half and then its second half, which visits the same indices in
\* the same order as the loop, a range of one index being the body of the
\* loop for that index; a ValueError ends the loop where it is raised.

\* the loop over the leaves of an explicit group, for the indices lo..hi-1
RECURSIVE LeafLoop(_, _, _, _, _, _, _)
LeafLoop(m_tree, pidx, eidx, explicit_group, lo, hi, items) ==
    IF m_tree = to_hex_Raised \/ lo >= hi THEN m_tree
    ELSE IF hi = lo + 1
         THEN add_char(m_tree, IntV(pidx), IntV(eidx), IntV(lo),
                       LeafRemaining(explicit_group[lo + 1]),
                       meaning(LeafGuess(explicit_group[lo + 1]), items))
    ELSE LET mid   == (lo + hi) \div 2
             first == LeafLoop(m_tree, pidx, eidx, explicit_group, lo, mid, items)
         IN  IF first = to_hex_Raised THEN to_hex_Raised
             ELSE LeafLoop(first, pidx, eidx, explicit_group, mid, hi, items)

\* the loop over the explicit groups of a path part, for the indices lo..hi-1
RECURSIVE GroupLoop(_, _, _, _, _, _)
GroupLoop(m_tree, pidx, pathpart, lo, hi, items) ==
    IF m_tree = to_hex_Raised \/ lo >= hi THEN m_tree
    ELSE IF hi = lo + 1
         THEN LeafLoop(m_tree, pidx, lo, pathpart[lo + 1], 0, Len(pathpart[lo + 1]), items)
    ELSE LET mid   == (lo + hi) \div 2
             first == GroupLoop(m_tree, pidx, pathpart, lo, mid, items)
         IN  IF first = to_hex_Raised THEN to_hex_Raised
             ELSE GroupLoop(first, pidx, pathpart, mid, hi, items)

Blank == StrV(<<" ">>)

\* the path separator added after path part pidx
PathSeparator(m_tree, tree, pidx) ==
    IF pidx < Len(tree) - 2 THEN add_char(m_tree, Blank, Blank, Blank, <<"/">>, <<>>)
    ELSE IF pidx = Len(tree) - 2 THEN add_char(m_tree, Blank, Blank, Blank, <<".">>, <<>>)
    ELSE m_tree

\* the loop over the path parts, for the indices lo..hi-1
RECURSIVE PartLoop(_, _, _, _, _)
PartLoop(m_tree, tree, lo, hi, items) ==
    IF m_tree = to_hex_Raised \/ lo >= hi THEN m_tree
    ELSE IF hi = lo + 1
         THEN LET added == GroupLoop(m_tree, lo, tree[lo + 1], 0, Len(tree[lo + 1]), items)
              IN  IF added = to_hex_Raised THEN to_hex_Raised
                  ELSE PathSeparator(added, tree, lo)
    ELSE LET mid   == (lo + hi) \div 2
             first == PartLoop(m_tree, tree, lo, mid, items)
         IN  IF first = to_hex_Raised THEN to_hex_Raised
             ELSE PartLoop(first, tree, mid, hi, items)

\* '\n'.join(lines)
RECURSIVE JoinLines(_)
JoinLines(lines) ==
    IF Len(lines) = 0 THEN <<>>
    ELSE IF Len(lines) = 1 THEN lines[1]
    ELSE lines[1] \o <<"\n">> \o JoinLines(Tail(lines))

\* tree_to_string(tree): the five lines joined, or the ValueError raised
tree_to_string(tree, items) ==
    LET m_tree == PartLoop(<< <<>>, <<>>, <<>>, <<>>, <<>> >>, tree, 0, Len(tree), items)
    IN  IF m_tree = to_hex_Raised THEN to_hex_Raised ELSE JoinLines(m_tree)

MaxParts  == 11   \* path parts of a rendered tree
MaxGroups == 11   \* explicit groups of its widest path part
MaxLeaves == 11   \* leaves of its widest explicit group

\* the kinds of leaf a rendered tree holds
RenderLeaf(k) ==
    CASE k % 5 = 0 -> Fresh(<<"a", "b">>)
      [] k % 5 = 1 -> << <<"2", "0", "5">>, <<"_", "_", "_">>,
                         Guess({<<"season", IntV(2)>>, <<"episodeNumber", IntV(5)>>}, 60) >>
      [] k % 5 = 2 -> << <<"2", "0", "1", "1">>, <<"_", "_", "_", "_">>,
                         Guess({<<"year", IntV(2011)>>}, 100) >>
      [] k % 5 = 3 -> << <<"T", "h", "e">>, <<"_", "_", "_">>,
                         Guess({<<"website", StrV(<<"T", "h", "e">>)>>,
                                <<"episodeNumber", IntV(5)>>}, 50) >>
      [] OTHER     -> Fresh(<<>>)

\* A tree of np path parts; the middle one has ne explicit groups, the last of
\* which has ng leaves; every other part and group holds one child (fill) or
\* none.
RenderTree(np, ne, ng, fill) ==
    [p \in 1..np |->
        IF p = (np + 1) \div 2
        THEN [e \in 1..ne |->
                IF e = ne THEN [g \in 1..ng |-> RenderLeaf(g)]
                ELSE IF fill THEN <<RenderLeaf(e)>> ELSE <<>>]
        ELSE IF fill THEN << <<RenderLeaf(p)>> >> ELSE <<>>]

RenderTrees ==
    { RenderTree(np, ne, ng, fill) :
        np \in 0..MaxParts, ne \in 0..MaxGroups, ng \in 0..MaxLeaves, fill \in BOOLEAN }

\* the largest index to_hex has a character for: chr(55 + x) with x = 200
\* is chr(255)
LastIndex == MaxChr - 55

\* Trees of many children: n path parts, or one path part of n explicit
\* groups, or one explicit group of n leaves, only the last child holding
\* text; n is such that the last index is the last one chr takes, or the next.
WideTrees ==
    UNION { { [p \in 1..n |-> IF p = n THEN << <<RenderLeaf(0)>> >> ELSE <<>>],
              << [e \in 1..n |-> IF e = n THEN <<RenderLeaf(1)>> ELSE <<>>] >>,
              << << [g \in 1..n |-> IF g = n THEN RenderLeaf(0) ELSE Fresh(<<>>)] >> >> } :
            n \in {LastIndex + 1, LastIndex + 2} }

NotRendered == [done |-> FALSE, raised |-> FALSE, out |-> <<>>]

InitRender ==
    /\ rtree \in RenderTrees \cup WideTrees
    /\ rendered = NotRendered

\* the properties held by the guesses of a tree
HeldProps(tree) ==
    UNION { UNION { UNION { { kv[1] : kv \in LeafGuess(tree[p][e][g]).props } :
                            g \in { h \in 1..Len(tree[p][e]) :
                                       LeafGuess(tree[p][e][h]) # None } } :
                    e \in 1..Len(tree[p]) } :
            p \in 1..Len(tree) }

\* the call tree_to_string(rtree), the dict giving its entries in the order items
TreeToString(items) ==
    /\ ~rendered.done
    /\ LET out == tree_to_string(rtree, items)
       IN  rendered' = [done |-> TRUE, raised |-> out = to_hex_Raised,
                        out |-> IF out = to_hex_Raised THEN <<>> ELSE out]
    /\ UNCHANGED rtree

-----------------------------------------------------------------------------
(* The language table and the Language entity                              *)

UpperLetters == << "A", "B", "C", "D", "E", "F", "G", "H", "I", "J", "K", "L", "M",
                   "N", "O", "P", "Q", "R", "S", "T", "U", "V", "W", "X", "Y", "Z" >>
LowerLetters == << "a", "b", "c", "d", "e", "f", "g", "h", "i", "j", "k", "l", "m",
                   "n", "o", "p", "q", "r", "s", "t", "u", "v", "w", "x", "y", "z" >>

\* s.lower()
lower(s) ==
    [i \in 1..Len(s) |->
        IF \E k \in 1..26 : UpperLetters[k] = s[i]
        THEN LowerLetters[CHOOSE k \in 1..26 : UpperLetters[k] = s[i]]
        ELSE s[i]]

\* s.split('; ')
RECURSIVE SplitNames(_, _, _)
SplitNames(s, cur, acc) ==
    IF Len(s) = 0 THEN Append(acc, cur)
    ELSE IF Len(s) >= 2 /\ s[1] = ";" /\ s[2] = " "
         THEN SplitNames(SubSeq(s, 3, Len(s)), <<>>, Append(acc, cur))
         ELSE SplitNames(Tail(s), Append(cur, Head(s)), acc)

split_names(s) == SplitNames(s, <<>>, <<>>)

\* the value a dict lookup gives for a missing key
NoValue == <<"None">>

\* dict(pairs).get(key): the last pair with the key decides
DictGet(pairs, key) ==
    IF \E i \in 1..Len(pairs) : pairs[i][1] = key
    THEN pairs[CHOOSE i \in 1..Len(pairs) :
                  pairs[i][1] = key /\ \A j \in (i + 1)..Len(pairs) : pairs[j][1] # key][2]
    ELSE NoValue

\* the rows of matrix m whose field f is not empty
RowsWith(m, f) == SelectSeq(m, LAMBDA l : l[f] # <<>>)

lng3(m)     == { m[i][1] : i \in { j \in 1..Len(m) : m[j][1] # <<>> } }
lng3term(m) == { m[i][2] : i \in { j \in 1..Len(m) : m[j][2] # <<>> } }
lng2(m)     == { m[i][3] : i \in { j \in 1..Len(m) : m[j][3] # <<>> } }

\* the lowercased names of field f (4: English, 5: French) of all rows
NamesOf(m, f) ==
    UNION { { n \in { split_names(lower(m[i][f]))[k] :
                        k \in 1..Len(split_names(lower(m[i][f]))) } : n # <<>> } :
            i \in 1..Len(m) }

lng_en_name(m) == NamesOf(m, 4)
lng_fr_name(m) == NamesOf(m, 5)

lng_all_names(m) == lng3(m) \cup lng3term(m) \cup lng2(m) \cup lng_en_name(m) \cup lng_fr_name(m)

lng3term_to_lng3(m) == [i \in 1..Len(RowsWith(m, 2)) |->
                            << RowsWith(m, 2)[i][2], RowsWith(m, 2)[i][1] >>]
lng3_to_lng2(m)     == [i \in 1..Len(RowsWith(m, 3)) |->
                            << RowsWith(m, 3)[i][1], RowsWith(m, 3)[i][3] >>]
lng2_to_lng3(m)     == [i \in 1..Len(RowsWith(m, 3)) |->
                            << RowsWith(m, 3)[i][3], RowsWith(m, 3)[i][1] >>]

\* (name.lower(), l[0]) for every name of field f of every row that has the field
NameToLng3(m, f) ==
    Concat([i \in 1..Len(RowsWith(m, f)) |->
        [k \in 1..Len(split_names(RowsWith(m, f)[i][f])) |->
            << lower(split_names(RowsWith(m, f)[i][f])[k]), RowsWith(m, f)[i][1] >>]])

lng_en_name_to_lng3(m) == NameToLng3(m, 4)
lng_fr_name_to_lng3(m) == NameToLng3(m, 5)

\* lng_exceptions = { 'gr': ('gre', None) }: the language of each exception
\* (the country of each is None)
lng_exceptions == << << <<"g", "r">>, <<"g", "r", "e">> >> >>

\* Country(name), or no country
NoCountry == [none |-> TRUE, name |-> <<>>]
Country(name) == [none |-> FALSE, name |-> name]

\* _with_country_regexp.match(language): '(.*)\((.*)\)' matches when a '('
\* has a ')' after it; both groups are greedy
OpenParens(s) ==
    { i \in 1..Len(s) : s[i] = "(" /\ \E j \in (i + 1)..Len(s) : s[j] = ")" }
LastOpenParen(s) == CHOOSE i \in OpenParens(s) : \A k \in OpenParens(s) : k <= i
LastCloseParen(s) == CHOOSE j \in 1..Len(s) : s[j] = ")" /\ \A k \in (j + 1)..Len(s) : s[k] # ")"

\* a constructor that raised ValueError
ValueError == [ok |-> FALSE, lang |-> NoValue, country |-> NoCountry]

\* self.lang after the dispatch on the length of the lowercased identifier
LookupLang(m, language) ==
    IF Len(language) = 2 THEN DictGet(lng2_to_lng3(m), language)
    ELSE IF Len(language) = 3
         THEN IF language \in lng3(m) THEN language
              ELSE DictGet(lng3term_to_lng3(m), language)
    ELSE IF DictGet(lng_en_name_to_lng3(m), language) \notin {NoValue, <<>>}
         THEN DictGet(lng_en_name_to_lng3(m), language)
         ELSE DictGet(lng_fr_name_to_lng3(m), language)

\* Language(language, country)
RECURSIVE Language(_, _, _)
Language(m, language, country) ==
    IF OpenParens(language) # {}
    THEN LET inner == Language(m, SubSeq(language, 1, LastOpenParen(language) - 1), NoCountry)
         IN  IF inner.ok
             THEN [ok |-> TRUE, lang |-> inner.lang,
                   country |-> Country(SubSeq(language, LastOpenParen(language) + 1,
                                              LastCloseParen(language) - 1))]
             ELSE ValueError
    ELSE LET found == LookupLang(m, lower(language))
         IN  IF found # NoValue THEN [ok |-> TRUE, lang |-> found, country |-> country]
             ELSE IF DictGet(lng_exceptions, lower(language)) # NoValue
                  THEN [ok |-> TRUE, lang |-> DictGet(lng_exceptions, lower(language)),
                        country |-> NoCountry]
             ELSE ValueError

\* Language.__eq__ between two Language objects
LanguageEq(a, b) == a.lang = b.lang

-----------------------------------------------------------------------------
(* The language matcher, search_language                                   *)

lng_common_words ==
    { <<"i", "s">>, <<"i", "t">>, <<"a", "m">>, <<"m", "a", "d">>,
      <<"m", "e", "n">>, <<"m", "a", "n">>, <<"r", "u", "n">>, <<"s", "i", "n">>,
      <<"s", "t">>, <<"t", "o">>, <<"n", "o">>, <<"n", "o", "n">>,
      <<"w", "a", "r">>, <<"m", "i", "n">>, <<"n", "e", "w">>, <<"c", "a", "r">>,
      <<"d", "a", "y">>, <<"b", "a", "d">>, <<"b", "a", "t">>, <<"f", "a", "n">>,
      <<"f", "r", "y">>, <<"c", "o", "p">>, <<"z", "e", "n">>, <<"g", "a", "y">>,
      <<"f", "a", "t">>, <<"c", "h", "e", "r", "o", "k", "e", "e">>, <<"g", "o", "t">>, <<"a", "n">>,
      <<"a", "s">>, <<"c", "a", "t">>, <<"h", "e", "r">>, <<"b", "e">>,
      <<"h", "a", "t">>, <<"s", "u", "n">>, <<"m", "a", "y">>, <<"m", "y">>,
      <<"m", "r">>, <<"b", "a", "s">>, <<"d", "e">>, <<"l", "e">>,
      <<"s", "o", "n">>, <<"v", "o">>, <<"v", "f">>, <<"n", "e">>,
      <<"c", "a">>, <<"c", "e">>, <<"e", "t">>, <<"q", "u", "e">>,
      <<"m", "a", "l">>, <<"e", "s", "t">>, <<"v", "o", "l">>, <<"o", "r">>,
      <<"m", "o", "n">>, <<"s", "e">>, <<"l", "a">>, <<"e", "l">>,
      <<"d", "e", "l">>, <<"p", "o", "r">>, <<"m", "a", "r">>, <<"i", "n", "d">>,
      <<"a", "r", "w">>, <<"t", "s">>, <<"i", "i">>, <<"b", "i", "n">>,
      <<"c", "h", "a", "n">>, <<"s", "s">>, <<"s", "a", "n">>, <<"o", "s", "s">>,
      <<"i", "i", "i">>, <<"v", "i">> }

\* sep = r'[](){} \._-+', used as a string of characters
sep == {"[", "]", "(", ")", "{", "}", " ", "\\", ".", "_", "-", "+"}

\* slow.find(lang): the 0-based index of the first occurrence, or -1
find(slow, lang) ==
    LET at == { i \in 1..(Len(slow) - Len(lang) + 1) : SubSeq(slow, i, i + Len(lang) - 1) = lang }
    IN  IF at = {} THEN -1 ELSE (CHOOSE i \in at : \A j \in at : i <= j) - 1

\* slow[i] for a 0-based index i, a negative one counting from the end
CharAt(slow, i) == IF i < 0 THEN slow[Len(slow) + i + 1] ELSE slow[i + 1]

ConfAlpha2 == 80
ConfAlpha3 == 90
ConfName   == 30

NothingFound == [kind |-> "none", language |-> ValueError, span |-> NoSpan, confidence |-> 0]
Raised       == [kind |-> "ValueError", language |-> ValueError, span |-> NoSpan, confidence |-> 0]

\* the allow-list as a set of Language objects; lang_filter is a sequence of
\* identifiers, the empty one standing for no filter
FilterLanguages(m, lang_filter) ==
    { Language(m, lang_filter[i], NoCountry) : i \in 1..Len(lang_filter) }

\* `language not in lang_filter` for a set of Language objects
InFilter(language, allowed) == \E l \in allowed : LanguageEq(language, l)

\* a turn of the loop that returns the span as found in the padded string
Turn_PaddedSpan(m, slow, lang, allowed, filtered) ==
    IF lang \in lng_common_words THEN [kind |-> "continue"]
    ELSE LET pos == find(slow, lang)
             end == pos + Len(lang)
         IN  IF pos = -1 THEN [kind |-> "continue"]
             ELSE IF CharAt(slow, pos - 1) \notin sep \/ CharAt(slow, end) \notin sep
                  THEN [kind |-> "continue"]
             ELSE LET language == Language(m, SubSeq(slow, pos + 1, end), NoCountry)
                  IN  IF ~language.ok THEN Raised
                      ELSE IF filtered /\ ~InFilter(language, allowed) THEN [kind |-> "continue"]
                      ELSE IF DictGet(lng3_to_lng2(m), language.lang) = NoValue
                           THEN [kind |-> "continue"]
                      ELSE [kind |-> "found", language |-> language,
                            span |-> Span(pos, end),
                            confidence |-> IF Len(lang) = 2 THEN ConfAlpha2
                                           ELSE IF Len(lang) = 3 THEN ConfAlpha3
                                           ELSE ConfName]

\* One turn of the loop of search_language, for the identifier lang:
\* "continue" when the loop goes on to the next identifier, else the result
\* returned (or the error raised) in this turn.
Turn(m, slow, lang, allowed, filtered) ==
    IF lang \in lng_common_words THEN [kind |-> "continue"]
    ELSE LET pos == find(slow, lang)
             end == pos + Len(lang)
         IN  IF pos = -1 THEN [kind |-> "continue"]
             ELSE IF CharAt(slow, pos - 1) \notin sep \/ CharAt(slow, end) \notin sep
                  THEN [kind |-> "continue"]
             ELSE LET language == Language(m, SubSeq(slow, pos + 1, end), NoCountry)
                  IN  IF ~language.ok THEN Raised
                      ELSE IF filtered /\ ~InFilter(language, allowed) THEN [kind |-> "continue"]
                      ELSE IF DictGet(lng3_to_lng2(m), language.lang) = NoValue
                           THEN [kind |-> "continue"]
                      ELSE [kind |-> "found", language |-> language,
                            span |-> Span(pos - 1, end - 1),
                            confidence |-> IF Len(lang) = 2 THEN ConfAlpha2
                                           ELSE IF Len(lang) = 3 THEN ConfAlpha3
                                           ELSE ConfName]

\* search_language(string, lang_filter): what it can return.  The loop runs
\* over the frozenset lng_all_names in an order the code does not fix, and
\* ends at the first identifier whose turn does not `continue`; so any such
\* identifier may decide, and (None, None, None) is returned when there is
\* none.
search_language(m, string, lang_filter) ==
    LET filtered == Len(lang_filter) > 0
        allowed  == FilterLanguages(m, lang_filter)
        slow     == <<" ">> \o lower(string) \o <<" ">>
        ends     == { Turn(m, slow, lang, allowed, filtered) : lang \in lng_all_names(m) }
                    \ { [kind |-> "continue"] }
    IN  IF filtered /\ \E l \in allowed : ~l.ok THEN {Raised}
        ELSE IF ends = {} THEN {NothingFound}
        ELSE ends

\* rows of the ISO 639-2 table
RowPool ==
    << << <<"e", "n", "g">>,
       <<>>,
       <<"e", "n">>,
       <<"E", "n", "g", "l", "i", "s", "h">>,
       <<"a", "n", "g", "l", "a", "i", "s">> >>,
    << <<"f", "r", "e">>,
       <<"f", "r", "a">>,
       <<"f", "r">>,
       <<"F", "r", "e", "n", "c", "h">>,
       <<"f", "r", "a", "n", "c", "a", "i", "s">> >>,
    << <<"g", "r", "e">>,
       <<"e", "l", "l">>,
       <<"e", "l">>,
       <<"G", "r", "e", "e", "k", ",", " ", "M", "o", "d", "e", "r", "n", " ", "(", "1", "4", "5", "3", "-", ")">>,
       <<"g", "r", "e", "c", " ", "m", "o", "d", "e", "r", "n", "e", " ", "(", "a", "p", "r", "e", "s", " ", "1", "4", "5", "3", ")">> >>,
    << <<"g", "a", "a">>,
       <<>>,
       <<>>,
       <<"G", "a">>,
       <<"g", "a">> >>,
    << <<"g", "l", "e">>,
       <<>>,
       <<"g", "a">>,
       <<"I", "r", "i", "s", "h">>,
       <<"i", "r", "l", "a", "n", "d", "a", "i", "s">> >>,
    << <<"s", "p", "a">>,
       <<>>,
       <<"e", "s">>,
       <<"S", "p", "a", "n", "i", "s", "h", ";", " ", "C", "a", "s", "t", "i", "l", "i", "a", "n">>,
       <<"e", "s", "p", "a", "g", "n", "o", "l", ";", " ", "c", "a", "s", "t", "i", "l", "l", "a", "n">> >>,
    << <<"u", "n", "d">>,
       <<>>,
       <<>>,
       <<"U", "n", "d", "e", "t", "e", "r", "m", "i", "n", "e", "d">>,
       <<"i", "n", "d", "e", "t", "e", "r", "m", "i", "n", "e", "e">> >> >>

\* the tables: the sub-sequences of the pool with at least one row
RECURSIVE SubSeqs(_)
SubSeqs(rows) ==
    IF Len(rows) = 0 THEN { <<>> }
    ELSE LET rest == SubSeqs(Tail(rows))
         IN  rest \cup { <<Head(rows)>> \o t : t \in rest }

Tables == SubSeqs(RowPool) \ { <<>> }

NotBuilt == [done |-> FALSE, row |-> <<>>, from2 |-> ValueError, from3 |-> ValueError,
             fromName |-> ValueError]

\* a call of search_language not made yet
ToSearch(string, lang_filter) ==
    [done |-> FALSE, string |-> string, lang_filter |-> lang_filter, result |-> NothingFound]

NotSearched == ToSearch(<<>>, <<>>)

InitLanguage ==
    /\ language_matrix \in Tables
    /\ built = NotBuilt
    /\ searched = NotSearched

\* Language(l[2]), Language(l[0]) and Language(first English name, lowercased)
\* for a row l of the table
LanguagesOfRow(l) ==
    /\ built' = [done |-> TRUE, row |-> l,
                 from2 |-> Language(language_matrix, l[3], NoCountry),
                 from3 |-> Language(language_matrix, l[1], NoCountry),
                 fromName |-> Language(language_matrix, lower(split_names(l[4])[1]), NoCountry)]
    /\ UNCHANGED <<language_matrix, searched>>

\* the texts searched
SearchTexts ==
    { <<"m", "o", "v", "i", "e", " ", "[", "e", "n", "]", ".", "a", "v", "i">>,
      <<"m", "e", "n", ".", "e", "n">>,
      <<"Q", "u", "e", "e", "n", " ", "[", "e", "n", "]">>,
      <<"t", "h", "e", " ", "z", "e", "n", " ", "f", "a", "t", " ", "c", "a", "t">>,
      <<"a", ".", "F", "r", "e", "n", "c", "h", ".", "f", "i", "l", "m">>,
      <<"f", "r", "-", "e", "n", "g">>,
      <<"f", "i", "l", "m", ".", "u", "n", "d", ".", "a", "v", "i">>,
      <<"f", "i", "l", "m", ".", "g", "a", ".", "a", "v", "i">>,
      <<"e", "n", "g">>,
      <<"m", "o", "v", "i", "e", ".", "a", "v", "i">>,
      <<"G", "r", "e", "e", "k", ",", " ", "M", "o", "d", "e", "r", "n", " ", "(", "1", "4", "5", "3", "-", ")">>,
      <<"e", "l", ".", "f", "i", "l", "m">>,
      <<"t", "h", "e", " ", "z", "e", "n", " ", "f", "a", "t", " ", "c", "a", "t", " ", "a", "n", "d", " ", "t", "h", "e", " ", "g", "a", "y", " ", "m", "a", "d", " ", "m", "e", "n", " ", "g", "o", "t", " ", "a", " ", "n", "e", "w", " ", "f", "a", "n">> }

\* the allow-lists given (<<>>: none)
SearchFilters ==
    { <<>>, << <<"e", "n">> >>, << <<"f", "r">> >>,
      << <<"e", "n">>, <<"f", "r">>, <<"e", "s">> >> }

InitSearch ==
    /\ language_matrix \in Tables
    /\ built = NotBuilt
    /\ searched \in { ToSearch(string, lang_filter) :
                          string \in SearchTexts, lang_filter \in SearchFilters }

\* the call search_language(string, lang_filter)
SearchLanguage ==
    /\ \E result \in search_language(language_matrix, searched.string, searched.lang_filter) :
          searched' = [searched EXCEPT !.done = TRUE, !.result = result]
    /\ UNCHANGED <<language_matrix, built>>

-----------------------------------------------------------------------------
(* The trees the resolver is run on                                        *)

MaxBefore == 3   \* leftover leaves before the anchor in its path part
MaxAfter  == 3   \* leftover leaves after the anchor in its path part
MaxPrev   == 2   \* leftover leaves in the path part before the anchor's

TextPool ==
    << <<"L", "o", "s", "t">>,
       <<"T", "h", "e", ".", "W", "i", "r", "e">>,
       <<"_", "H", "o", "u", "s", "e">> >>

Text(k) == TextPool[(k % Len(TextPool)) + 1]

\* a leaf too short to be a leftover once cleaned ("a.b" cleans to "a b")
ShortLeaf == Fresh(<<"a", ".", "b">>)

\* a leaf an earlier pass resolved to the episode number
AnchorLeaf == << <<"0", "5">>, <<"_", "_">>, Guess({<<"episodeNumber", IntV(5)>>}, 100) >>

\* a leaf an earlier pass resolved to a title
TitleLeaf == << <<"P", "i", "l", "o", "t">>, <<"_", "_", "_", "_", "_">>,
                Guess({<<"title", StrV(<<"P", "i", "l", "o", "t">>)>>}, 100) >>

FreshRun(from, n) == [i \in 1..n |-> Fresh(Text(from + i))]

ExtraLeaves(extra) ==
    CASE extra = "title" -> <<TitleLeaf>>
      [] extra = "short" -> <<ShortLeaf>>
      [] OTHER           -> <<>>

\* The anchor's path part: an optional earlier explicit group of b1 leftovers,
\* the anchor's explicit group (extra leaf, b2 leftovers, anchor, a1
\* leftovers) and an optional later explicit group of a2 leftovers.
AnchorPart(b1, b2, a1, a2, extra) ==
    (IF b1 > 0 THEN <<FreshRun(0, b1)>> ELSE <<>>)
    \o << ExtraLeaves(extra) \o FreshRun(b1, b2) \o <<AnchorLeaf>> \o FreshRun(b1 + b2, a1) >>
    \o (IF a2 > 0 THEN <<FreshRun(b1 + b2 + a1, a2)>> ELSE <<>>)

\* prev = -1: no path part before the anchor's; else one with prev leftovers.
\* tail: a path part after the anchor's, with a leaf or with a second anchor.
BuildTree(b1, b2, a1, a2, extra, prev, tail) ==
    (IF prev >= 0 THEN << <<FreshRun(1, prev)>> >> ELSE <<>>)
    \o << AnchorPart(b1, b2, a1, a2, extra) >>
    \o (CASE tail = "leaf"   -> << << <<Fresh(Text(2))>> >> >>
          [] tail = "anchor" -> << << <<Fresh(Text(0)), AnchorLeaf>> >> >>
          [] OTHER           -> <<>>)

\* the ways to put at most n leaves into two groups
Splits(n) == { xy \in (0..n) \X (0..n) : xy[1] + xy[2] <= n }

InitialTrees ==
    { BuildTree(b[1], b[2], a[1], a[2], extra, prev, tail) :
        b \in Splits(MaxBefore), a \in Splits(MaxAfter),
        extra \in {"none", "title", "short"}, prev \in -1..MaxPrev,
        tail \in {"none", "leaf", "anchor"} }

\* the positions of the tree, in traversal order
Positions(tree) ==
    UNION { UNION { { <<p - 1, e - 1, g - 1>> : g \in 1..Len(tree[p][e]) } :
                    e \in 1..Len(tree[p]) } : p \in 1..Len(tree) }

\* the leaves an earlier pass resolved to an episode number
Anchors(tree) == { pos \in Positions(tree) :
                     /\ Truthy(LeafGuess(get_group(tree, pos)))
                     /\ HasProp(LeafGuess(get_group(tree, pos)), "episodeNumber") }

NoCall == [called |-> FALSE, epnum_pos |-> <<0, 0, 0>>, stages |-> <<>>]

ResolverIdle == match_tree = <<>> /\ last = NoCall

\* the variables of a component that a specification does not exercise
WeakIdle ==
    /\ weak_episode_rexps = <<>> /\ wtree = <<>>
    /\ info = Guess({}, 100) /\ wlast = NoRun

RenderIdle == rtree = <<>> /\ rendered = NotRendered

LanguageIdle == language_matrix = <<>> /\ built = NotBuilt /\ searched = NotSearched

Init ==
    /\ match_tree \in InitialTrees
    /\ last = NoCall
    /\ WeakIdle
    /\ RenderIdle
    /\ LanguageIdle

\* one call of match_from_epnum_position(match_tree, epnum_pos, guessed)
MatchFromEpnumPosition(epnum_pos) ==
    /\ match_tree' = match_from_epnum_position(match_tree, epnum_pos)
    /\ last' = [called |-> TRUE, epnum_pos |-> epnum_pos,
                stages |-> Stages(match_tree, epnum_pos)]
    /\ UNCHANGED <<weakVars, renderVars, languageVars>>

Next == \E epnum_pos \in Anchors(match_tree) : MatchFromEpnumPosition(epnum_pos)

Spec == Init /\ [][Next]_vars

\* the weak episode pass on its own
InitWeakPass == InitWeak /\ ResolverIdle /\ RenderIdle /\ LanguageIdle

NextWeak ==
    \/ Process /\ UNCHANGED <<resolverVars, renderVars, languageVars>>
    \/ EarlierPassClaims /\ UNCHANGED <<resolverVars, renderVars, languageVars>>

SpecWeak == InitWeakPass /\ [][NextWeak]_vars

\* the rendering on its own
InitRendering == InitRender /\ ResolverIdle /\ WeakIdle /\ LanguageIdle

NextRender ==
    \E items \in MmapOrders(HeldProps(rtree)) :
        TreeToString(items) /\ UNCHANGED <<resolverVars, weakVars, languageVars>>

SpecRender == InitRendering /\ [][NextRender]_vars

\* the Language constructor on its own
InitLanguages == InitLanguage /\ ResolverIdle /\ WeakIdle /\ RenderIdle

NextLanguage ==
    \E i \in 1..Len(language_matrix) :
        LanguagesOfRow(language_matrix[i]) /\ UNCHANGED <<resolverVars, weakVars, renderVars>>

SpecLanguage == InitLanguages /\ [][NextLanguage]_vars

\* the language matcher on its own
InitSearches == InitSearch /\ ResolverIdle /\ WeakIdle /\ RenderIdle

NextSearch == SearchLanguage /\ UNCHANGED <<resolverVars, weakVars, renderVars>>

SpecSearch == InitSearches /\ [][NextSearch]_vars

-----------------------------------------------------------------------------
(* Properties of the positional resolver                                   *)

\* the running state of the last call before rule k (k = 1..4) and at its end
Before(k) == last.stages[k]
AtEnd     == last.stages[5]

\* the rules that called `guessed` in the last call
FiredRules == { AtEnd.calls[i].rule : i \in 1..Len(AtEnd.calls) }

\* the leaves committed in the last call
Committed == { AtEnd.calls[i].pos : i \in 1..Len(AtEnd.calls) }

\* the leftover leaves of a tree: no guess, cleaned remaining text longer than 3
LeftoverAt(tree) ==
    { pos \in Positions(tree) :
        /\ LeafGuess(get_group(tree, pos)) = None
        /\ Len(clean_string(LeafRemaining(get_group(tree, pos)))) >= 4 }

\* ... before / after the anchor a in its path part, after it in its explicit
\* group, and in the path part before the anchor's
LeftBefore(tree, a) ==
    { pos \in LeftoverAt(tree) :
        pos[1] = a[1] /\ (pos[2] < a[2] \/ (pos[2] = a[2] /\ pos[3] < a[3])) }
LeftAfter(tree, a) ==
    { pos \in LeftoverAt(tree) :
        pos[1] = a[1] /\ (pos[2] > a[2] \/ (pos[2] = a[2] /\ pos[3] > a[3])) }
LeftAfterInGroup(tree, a) ==
    { pos \in LeftoverAt(tree) : pos[1] = a[1] /\ pos[2] = a[2] /\ pos[3] > a[3] }
LeftPrev(tree, a) == { pos \in LeftoverAt(tree) : pos[1] = a[1] - 1 }

\* traversal order of positions
PosLess(x, y) ==
    x[1] < y[1] \/ (x[1] = y[1] /\ (x[2] < y[2] \/ (x[2] = y[2] /\ x[3] < y[3])))

\* leaf pos of the tree holds exactly the guess {prop: its cleaned text} at c
Assigned(pre, post, pos, prop, c) ==
    LeafGuess(get_group(post, pos)) =
        Guess({<<prop, StrV(clean_string(LeafRemaining(get_group(pre, pos))))>>}, c)

\* the case of C1: one leftover before the anchor, none after, at call start
C1_Case ==
    /\ last.called
    /\ Cardinality(LeftBefore(Before(1).tree, last.epnum_pos)) = 1
    /\ LeftAfter(Before(1).tree, last.epnum_pos) = {}

C1_Rule1Assigns ==
    \A pos \in LeftBefore(Before(1).tree, last.epnum_pos) :
        /\ Assigned(Before(1).tree, match_tree, pos, "series", 70)
        /\ \E i \in 1..Len(AtEnd.calls) : AtEnd.calls[i].rule = 1 /\ AtEnd.calls[i].pos = pos

\* C1 as stated: in that case rule 1 assigns the leaf `series` at 0.7 and no
\* leaf of path part anchor_pidx-1 receives a guess in the call.
C1_AsStated ==
    C1_Case =>
        /\ C1_Rule1Assigns
        /\ \A pos \in Committed : pos[1] # last.epnum_pos[1] - 1

\* C1 amended: in that case rule 1 assigns the leaf `series` at 0.7, rules 2
\* and 3 do not fire, and rule 4 fires in the same call exactly when path part
\* anchor_pidx-1 holds exactly one leftover leaf, which then also receives
\* `series` at 0.7; otherwise no leaf of that path part receives a guess.
C1_Rule1ThenRule4Independent ==
    C1_Case =>
        /\ C1_Rule1Assigns
        /\ FiredRules \subseteq {1, 4}
        /\ (4 \in FiredRules) <=> (Cardinality(LeftPrev(Before(1).tree, last.epnum_pos)) = 1)
        /\ \A pos \in LeftPrev(Before(1).tree, last.epnum_pos) :
              IF Cardinality(LeftPrev(Before(1).tree, last.epnum_pos)) = 1
              THEN Assigned(Before(1).tree, match_tree, pos, "series", 70)
              ELSE get_group(match_tree, pos) = get_group(Before(1).tree, pos)
        /\ \A pos \in Committed :
              pos[1] = last.epnum_pos[1] - 1 =>
                  Cardinality(LeftPrev(Before(1).tree, last.epnum_pos)) = 1

C1_Witness == C1_Case /\ FiredRules = {1, 4}

\* the rules whose exact-count condition the leftover counts satisfy at the
\* start of the last call: one before (rule 1), one after in the explicit
\* group (rule 2), two after in the path part (rule 3), one in the previous
\* path part (rule 4)
CountMatches ==
    LET t == Before(1).tree
        a == last.epnum_pos
    IN  (IF Cardinality(LeftBefore(t, a)) = 1 THEN {1} ELSE {})
        \cup (IF Cardinality(LeftAfterInGroup(t, a)) = 1 THEN {2} ELSE {})
        \cup (IF Cardinality(LeftAfter(t, a)) = 2 THEN {3} ELSE {})
        \cup (IF Cardinality(LeftPrev(t, a)) = 1 THEN {4} ELSE {})

\* C2: when the leftover counts at the start of a call satisfy the exact-count
\* condition of only one of rules 1-4, at most one rule fires in that call
\* (and it is that rule).
C2_RuleExclusivity ==
    (last.called /\ Cardinality(CountMatches) = 1) =>
        /\ Cardinality(FiredRules) <= 1
        /\ FiredRules \subseteq CountMatches

\* rule 2 fired on a leaf that had two more leftovers after it in the path
\* part: its title is what keeps rule 3 from firing on the residue
C2_Witness ==
    /\ last.called
    /\ CountMatches = {2}
    /\ Cardinality(LeftAfter(Before(1).tree, last.epnum_pos)) = 3
    /\ LeftBefore(Before(1).tree, last.epnum_pos) = {}
    /\ \A pos \in Positions(Before(1).tree) :
          ~HasProp(LeafGuess(get_group(Before(1).tree, pos)), "title")
    /\ FiredRules = {2}

\* C3: every leaf keeps len(remaining) = len(original) and its original
\* substring across calls, and a committed leaf's remaining text is filler of
\* exactly the original length.
C3_LengthPreserved ==
    /\ \A pos \in Positions(match_tree) :
          Len(LeafRemaining(get_group(match_tree, pos))) =
              Len(LeafString(get_group(match_tree, pos)))
    /\ last.called =>
          /\ Positions(match_tree) = Positions(Before(1).tree)
          /\ \A pos \in Positions(match_tree) :
                LeafString(get_group(match_tree, pos)) =
                    LeafString(get_group(Before(1).tree, pos))
          /\ \A pos \in Committed :
                LET leaf == get_group(match_tree, pos)
                IN  /\ Len(LeafRemaining(leaf)) = Len(LeafString(leaf))
                    /\ \A i \in 1..Len(LeafRemaining(leaf)) : LeafRemaining(leaf)[i] = "_"

\* a call committed a leaf whose text holds separators and filler
C3_Witness ==
    /\ last.called
    /\ \E pos \in Committed :
          /\ LeafString(get_group(match_tree, pos)) = <<"_", "H", "o", "u", "s", "e">>
          /\ LeafRemaining(get_group(match_tree, pos)) = <<"_", "_", "_", "_", "_", "_">>

\* the candidates of rule k when it is evaluated in the last call
RuleCandidates(k) ==
    LET t == Before(k).tree
        a == last.epnum_pos
    IN  CASE k = 1 -> LeftBefore(t, a)
          [] k = 2 -> LeftAfterInGroup(t, a)
          [] k = 3 -> LeftAfter(t, a)
          [] OTHER -> LeftPrev(t, a)

RuleCount(k) == IF k = 3 THEN 2 ELSE 1

\* C4: a call changes only leaves a firing rule selected: leaves that held a
\* guess at the start (the anchor too) keep their triple, no leaf is committed
\* twice, and the candidates of a rule whose count does not match are left as
\* they were by that rule.
C4_Frame ==
    last.called =>
        /\ Len(last.stages) = 5
        /\ AtEnd.tree = match_tree
        /\ \A pos \in Positions(Before(1).tree) :
              \/ get_group(match_tree, pos) = get_group(Before(1).tree, pos)
              \/ /\ pos \in Committed
                 /\ LeafGuess(get_group(Before(1).tree, pos)) = None
        /\ Truthy(LeafGuess(get_group(match_tree, last.epnum_pos)))
        /\ get_group(match_tree, last.epnum_pos) = get_group(Before(1).tree, last.epnum_pos)
        /\ \A i, j \in 1..Len(AtEnd.calls) :
              AtEnd.calls[i].pos = AtEnd.calls[j].pos => i = j
        /\ \A k \in 1..4 :
              Cardinality(RuleCandidates(k)) # RuleCount(k) =>
                  /\ last.stages[k + 1].tree = Before(k).tree
                  /\ \A pos \in RuleCandidates(k) :
                        /\ LeafGuess(get_group(last.stages[k + 1].tree, pos)) = None
                        /\ get_group(last.stages[k + 1].tree, pos)
                              = get_group(Before(k).tree, pos)

\* a call in which rules 1 and 2 both saw two candidates and left them alone,
\* while the tree held an earlier title guess that stayed as it was
C4_Witness ==
    /\ last.called
    /\ Cardinality(RuleCandidates(1)) = 2
    /\ Cardinality(RuleCandidates(2)) = 2
    /\ \E pos \in Positions(match_tree) : get_group(match_tree, pos) = TitleLeaf
    /\ 4 \in FiredRules

\* the condition of rule 3 on the tree as rules 1 and 2 left it
C5_Condition ==
    LET t == Before(3).tree
        a == last.epnum_pos
    IN  /\ \A pos \in Positions(t) :
              LeafGuess(get_group(t, pos)) = None
              \/ ~HasProp(LeafGuess(get_group(t, pos)), "title")
        /\ LeftBefore(t, a) = {}
        /\ Cardinality(LeftAfter(t, a)) = 2

\* C5: rule 3 fires iff, evaluated after rules 1 and 2, no leaf holds a title,
\* no leftover is before the anchor and exactly two are after it in its path
\* part; it gives the first `series` and the second `title`, both at 0.4; it
\* never fires in a call in which rule 2 assigned a title.
C5_Rule3 ==
    last.called =>
        /\ (3 \in FiredRules) <=> C5_Condition
        /\ (3 \in FiredRules) =>
              LET two    == LeftAfter(Before(3).tree, last.epnum_pos)
                  first  == CHOOSE x \in two : \A y \in two : x = y \/ PosLess(x, y)
                  second == CHOOSE y \in two : y # first
              IN  /\ Assigned(Before(3).tree, match_tree, first, "series", 40)
                  /\ Assigned(Before(3).tree, match_tree, second, "title", 40)
                  /\ { c \in Committed : \E i \in 1..Len(AtEnd.calls) :
                          AtEnd.calls[i].pos = c /\ AtEnd.calls[i].rule = 3 } = two
        /\ ~({2, 3} \subseteq FiredRules)

\* rule 3 fired on two leaves of a later explicit group, after rule 1 had
\* cleared the one leftover before the anchor
C5_Witness ==
    /\ last.called
    /\ FiredRules = {1, 3}
    /\ \A x \in LeftAfter(Before(3).tree, last.epnum_pos) : x[2] # last.epnum_pos[2]

-----------------------------------------------------------------------------
(* Properties of the weak episode pass                                     *)

\* C6: once episodeNumber is in the aggregate result, every invocation of the
\* pass returns (None, None), and a run of the pass over a tree whose
\* aggregate already holds it changes neither the tree nor the aggregate.
C6_PropertyGuard ==
    wlast.ran =>
        /\ \A i \in 1..Len(wlast.log) :
              HasProp(wlast.log[i].info, "episodeNumber") =>
                  wlast.log[i].guess = None /\ wlast.log[i].span = NoSpan
        /\ HasProp(wlast.info, "episodeNumber") => (wtree = wlast.tree /\ info = wlast.info)

\* a second run over a tree in which the first run claimed the episode number
\* from one leaf, a further leaf with a number in it still holding no guess
C6_Witness ==
    /\ wlast.ran
    /\ HasProp(wlast.info, "episodeNumber")
    /\ \E i \in 1..Len(wlast.tree) : HasProp(LeafGuess(wlast.tree[i]), "episodeNumber")
    /\ \E i \in 1..Len(wlast.log) :
          /\ wlast.log[i].string = <<".", "0", "7", ".">>
          /\ wlast.log[i].guess = None

\* the first pattern of the list that matches the string, as an index (0: none)
FirstMatching(rexps, string) ==
    IF \E i \in 1..Len(rexps) : re_search(rexps[i], string).matched
    THEN CHOOSE i \in 1..Len(rexps) :
            /\ re_search(rexps[i], string).matched
            /\ \A j \in 1..(i - 1) : ~re_search(rexps[j], string).matched
    ELSE 0

\* what C7 says an invocation on `string` returns when the guard lets it run
C7_Expected(rexps, string) ==
    LET i == FirstMatching(rexps, string)
        n == ParseInt(re_search(rexps[i], string).episodeNumber)
    IN  IF i = 0 THEN None
        ELSE IF n > 100
             THEN Guess({<<"season", IntV(n \div 100)>>, <<"episodeNumber", IntV(n % 100)>>}, 60)
             ELSE Guess({<<"episodeNumber", IntV(n)>>}, 30)

\* C7: the first matching pattern decides; n > 100 gives season n div 100 and
\* episodeNumber n mod 100 at 0.6, n <= 100 gives the bare episodeNumber n as
\* a number at 0.3; no match gives (None, None).
C7_NumericPostProcessing ==
    wlast.ran =>
        \A i \in 1..Len(wlast.log) :
            ~HasProp(wlast.log[i].info, "episodeNumber") =>
                /\ wlast.log[i].guess = C7_Expected(weak_episode_rexps, wlast.log[i].string)
                /\ (wlast.log[i].guess = None) <=> (wlast.log[i].span = NoSpan)

-----------------------------------------------------------------------------
(* Properties of the rendering                                             *)

\* the lines of a string, split at newlines
Newlines(s) == { i \in 1..Len(s) : s[i] = "\n" }

NthNewline(s, k) ==
    IF k = 0 THEN 0
    ELSE IF k > Cardinality(Newlines(s)) THEN Len(s) + 1
    ELSE CHOOSE i \in Newlines(s) : Cardinality({ j \in Newlines(s) : j < i }) = k - 1

SplitLines(s) ==
    [k \in 1..(Cardinality(Newlines(s)) + 1) |->
        SubSeq(s, NthNewline(s, k - 1) + 1, NthNewline(s, k) - 1)]

RenderedLines == SplitLines(rendered.out)

\* the remaining texts of a path part, one after the other
PartText(pathpart) ==
    Concat([e \in 1..Len(pathpart) |->
        Concat([g \in 1..Len(pathpart[e]) |-> LeafRemaining(pathpart[e][g])])])

\* the remaining texts of the tree with '/' between path parts, '.' before
\* the last one
TextLine(tree) ==
    Concat([p \in 1..Len(tree) |->
        PartText(tree[p])
        \o (IF p = Len(tree) THEN <<>> ELSE IF p = Len(tree) - 1 THEN <<".">> ELSE <<"/">>)])

\* the five lines of the rendering have one length, the total length of the
\* remaining texts plus one column per path-part boundary, the remaining
\* line reading the texts with '/' and '.' at the boundaries
FiveEqualLines ==
    /\ Len(RenderedLines) = 5
    /\ RenderedLines[4] = TextLine(rtree)
    /\ \A i \in 1..5 : Len(RenderedLines[i]) = Len(TextLine(rtree))
    /\ Len(TextLine(rtree)) =
          Len(Concat([p \in 1..Len(rtree) |-> PartText(rtree[p])]))
          + (IF Len(rtree) = 0 THEN 0 ELSE Len(rtree) - 1)

\* C8: tree_to_string gives five lines of one length for every tree, whatever
\* the indices of its leaves: the total length of the remaining texts plus
\* one column per path-part boundary.
C8_EqualLineLengths ==
    rendered.done => ~rendered.raised /\ FiveEqualLines

\* the tree has a leaf whose path-part, explicit-group or leaf index is
\* beyond the last index to_hex has a character for
LeafBeyond(tree, top) ==
    \E p \in 1..Len(tree) : \E e \in 1..Len(tree[p]) : \E g \in 1..Len(tree[p][e]) :
        p - 1 > top \/ e - 1 > top \/ g - 1 > top

\* tree_to_string raises ValueError exactly for the trees with a leaf of an
\* index beyond 200, and gives five lines of one length for every other tree
C8_LinesUnlessIndexBeyond ==
    rendered.done =>
        /\ rendered.raised <=> LeafBeyond(rtree, LastIndex)
        /\ ~rendered.raised => FiveEqualLines

\* a tree with a leaf of index 201 rendered: ValueError and no line
C8_Raised ==
    /\ rendered.done
    /\ rendered.raised
    /\ LeafBeyond(rtree, LastIndex)

\* a tree whose last leaf has index 200, the last one chr takes, rendered
C8_LastIndexRendered ==
    /\ rendered.done
    /\ ~rendered.raised
    /\ LeafBeyond(rtree, LastIndex - 1)
    /\ \E i \in 1..Len(rendered.out) : rendered.out[i] = chr(MaxChr)

\* a rendered tree whose 11th path part, 11th explicit group of a part and
\* 11th leaf of a group all hold text (indices of 10 and more), with guessed
\* and unguessed leaves, rendered with letters for the indices
C8_Witness ==
    /\ rendered.done
    /\ Len(rtree) >= 11
    /\ PartText(rtree[11]) # <<>>
    /\ \E p \in 1..Len(rtree) :
          /\ Len(rtree[p]) >= 11
          /\ Len(rtree[p][11]) >= 11
          /\ LeafRemaining(rtree[p][11][11]) # <<>>
          /\ \E g \in 1..11 : LeafGuess(rtree[p][11][g]) = None
          /\ \E g \in 1..11 : LeafGuess(rtree[p][11][g]) # None
    /\ \E i \in 1..Len(rendered.out) : rendered.out[i] = "A"
    /\ \E i \in 1..Len(rendered.out) : rendered.out[i] = "/"

-----------------------------------------------------------------------------
(* Properties of the Language entity                                       *)

\* C9: for every row of the table, the constructions from the row's 2-letter
\* code (when the row has one), from its 3-letter code and from its lowercased
\* first English name all succeed and give pairwise equal Language entities.
C9_RoundTrip ==
    built.done =>
        /\ built.from3.ok /\ built.fromName.ok
        /\ LanguageEq(built.from3, built.fromName)
        /\ built.row[3] # <<>> =>
              /\ built.from2.ok
              /\ LanguageEq(built.from2, built.from3)
              /\ LanguageEq(built.from2, built.fromName)

\* the round trip of a row that has a 2-letter code and a first English name
\* longer than three characters without country syntax: the three
\* constructions succeed and give equal entities
C9_PlainRowsBuild ==
    (/\ built.done
     /\ built.row[3] # <<>>
     /\ Len(split_names(built.row[4])[1]) > 3
     /\ OpenParens(built.row[4]) = {})
        => /\ built.from2.ok /\ built.from3.ok /\ built.fromName.ok
           /\ LanguageEq(built.from2, built.from3)
           /\ LanguageEq(built.from3, built.fromName)

-----------------------------------------------------------------------------
(* Properties of the language matcher                                      *)

\* the 1-based positions at which lang occurs in text with a separator of
\* the text right before it and right after it
BoundedOccurrences(text, lang) ==
    { i \in 2..(Len(text) - Len(lang)) :
        /\ SubSeq(text, i, i + Len(lang) - 1) = lang
        /\ text[i - 1] \in sep
        /\ text[i + Len(lang)] \in sep }

\* the identifiers that qualify in a text under an allow-list: known, outside
\* the stoplist, separator-bounded somewhere in the text, a valid Language,
\* allowed, and with a 2-letter form
Qualifying(m, string, lang_filter) ==
    { lang \in lng_all_names(m) \ lng_common_words :
        /\ BoundedOccurrences(lower(string), lang) # {}
        /\ Language(m, lang, NoCountry).ok
        /\ Len(lang_filter) > 0 =>
               InFilter(Language(m, lang, NoCountry), FilterLanguages(m, lang_filter))
        /\ DictGet(lng3_to_lng2(m), Language(m, lang, NoCountry).lang) # NoValue }

\* every identifier of the allow-list is a language
ValidFilter(m, lang_filter) == \A l \in FilterLanguages(m, lang_filter) : l.ok

\* C10: when some identifier qualifies in the text (given a valid allow-list,
\* if any), search_language returns a Language, not (None, None, None), also
\* when an earlier occurrence of the identifier is not separator-bounded.
C10_QualifyingIsFound ==
    (/\ searched.done
     /\ ValidFilter(language_matrix, searched.lang_filter)
     /\ Qualifying(language_matrix, searched.string, searched.lang_filter) # {})
        => searched.result.kind = "found"

\* (None, None, None) is returned exactly when no identifier qualifies at its
\* first occurrence in the padded text
FirstOccurrenceQualifying(m, string, lang_filter) ==
    { lang \in lng_all_names(m) :
        Turn(m, <<" ">> \o lower(string) \o <<" ">>, lang,
             FilterLanguages(m, lang_filter), Len(lang_filter) > 0).kind # "continue" }

C10_FirstOccurrenceOnly ==
    (searched.done /\ ValidFilter(language_matrix, searched.lang_filter)) =>
        (searched.result.kind = "none" <=>
            FirstOccurrenceQualifying(language_matrix, searched.string,
                                      searched.lang_filter) = {})

\* text[s:e] for a span (s, e) of 0-based offsets
Slice(text, span) == SubSeq(text, span.start + 1, span.end)

\* the confidence the claim gives a match of the identifier lang
C11_Confidence(lang) == IF Len(lang) = 2 THEN 80 ELSE IF Len(lang) = 3 THEN 90 ELSE 30

MovieEn == <<"m", "o", "v", "i", "e", " ", "[", "e", "n", "]", ".", "a", "v", "i">>
StopwordSentence == <<"t", "h", "e", " ", "z", "e", "n", " ", "f", "a", "t", " ", "c", "a", "t", " ", "a", "n", "d", " ", "t", "h", "e", " ", "g", "a", "y", " ", "m", "a", "d", " ", "m", "e", "n", " ", "g", "o", "t", " ", "a", " ", "n", "e", "w", " ", "f", "a", "n">>
EnFrEs == << <<"e", "n">>, <<"f", "r">>, <<"e", "s">> >>

\* C11: when search_language returns a Language, the span (s, e) is a pair of
\* offsets into the unpadded text whose lowercased slice is a known identifier
\* outside the stoplist, bounded on each side by a separator or the end of the
\* text; the Language is the one of that identifier, has a 2-letter form and
\* is in the allow-list when one is given; the confidence is 0.8, 0.9 or 0.3
\* for an identifier of two letters, of three letters, or longer.  And
\* 'movie [en].avi' gives English, (7, 9), 0.8; the stopword sentence with the
\* allow-list en, fr, es gives (None, None, None).
C11_SpanAndConfidence ==
    LET m    == language_matrix
        r    == searched.result
        text == lower(searched.string)
        lang == Slice(text, r.span)
    IN  /\ (searched.done /\ r.kind = "found") =>
              /\ ~r.span.none
              /\ 0 <= r.span.start /\ r.span.start < r.span.end /\ r.span.end <= Len(text)
              /\ lang \in lng_all_names(m) \ lng_common_words
              /\ r.span.start = 0 \/ text[r.span.start] \in sep
              /\ r.span.end = Len(text) \/ text[r.span.end + 1] \in sep
              /\ r.language.ok
              /\ LanguageEq(r.language, Language(m, lang, NoCountry))
              /\ r.language.lang \in { m[i][1] : i \in { j \in 1..Len(m) : m[j][3] # <<>> } }
              /\ Len(searched.lang_filter) > 0 =>
                    \E i \in 1..Len(searched.lang_filter) :
                        LanguageEq(r.language, Language(m, searched.lang_filter[i], NoCountry))
              /\ r.confidence = C11_Confidence(lang)
        /\ (/\ searched.done /\ searched.string = MovieEn /\ searched.lang_filter = <<>>
            /\ \E i \in 1..Len(m) : m[i][3] = <<"e", "n">>) =>
              /\ r.kind = "found"
              /\ r.language.lang = DictGet(lng2_to_lng3(m), <<"e", "n">>)
              /\ r.span = Span(7, 9)
              /\ r.confidence = 80
        /\ (/\ searched.done /\ searched.string = StopwordSentence
            /\ searched.lang_filter = EnFrEs /\ ValidFilter(m, EnFrEs)) =>
              r.kind = "none"

\* search_language('movie [en].avi') has returned English with the span of
\* the bracketed token at 0.8, from a table that holds other languages too
C11_Witness ==
    /\ searched.done
    /\ searched.string = MovieEn
    /\ searched.lang_filter = <<>>
    /\ Len(language_matrix) >= 3
    /\ searched.result.kind = "found"
    /\ searched.result.language.lang = <<"e", "n", "g">>
    /\ searched.result.span = Span(7, 9)
    /\ searched.result.confidence = ConfAlpha2

====
